---- MODULE Spec2Model ----
(***************************************************************************)
(* Model of the Renegade liquidity module                                  *)
(*   src/modules/renegade_liquidity_module.py  (pair validation, client    *)
(*       resolution, order construction, quote interpretation)             *)
(*   src/modules/renegade/types.py             (ExternalOrder, model_dump) *)
(*   src/modules/renegade/client.py            (request, status handling)  *)
(*                                                                         *)
(* Conventions.  A Python Optional value is a sequence of length 0 or 1:   *)
(* None is <<>> and a present value v is <<v>>.  A string the code         *)
(* inspects character by character (an address) is a sequence of           *)
(* one-character strings.  A Python dict or pydantic model is a record.    *)
(***************************************************************************)
EXTENDS Integers, Sequences, FiniteSets, TLC

\* ------------------------------------------------------------------------
\* Bounds of the model
\* ------------------------------------------------------------------------
\* number of quote calls the host may have in flight together
NumCalls == 2
\* largest amount a caller passes (the smallest is -1: an int, not None, not 0)
MaxAmount == 2
\* largest leg amount the venue puts in a match bundle
MaxLeg == 4

Calls == 1..NumCalls
Amounts == (-1)..MaxAmount
LegAmounts == (MaxLeg - 1)..MaxLeg

None == <<>>
Some(v) == <<v>>

\* ------------------------------------------------------------------------
\* Addresses
\* ------------------------------------------------------------------------
USDC_ARBITRUM_ONE ==
  <<"0","x","a","f","8","8","d","0","6","5","e","7","7","c","8","c","c","2","2","3","9","3","2","7","c","5","e","d","b","3","a","4","3","2","2","6","8","e","5","8","3","1">>
USDC_ARBITRUM_SEPOLIA ==
  <<"0","x","d","f","8","d","2","5","9","c","0","4","0","2","0","5","6","2","7","1","7","5","5","7","f","2","b","5","a","3","c","f","2","8","e","9","2","7","0","7","d","1">>
USDC_BASE_MAINNET ==
  <<"0","x","8","3","3","5","8","9","f","c","d","6","e","d","b","6","e","0","8","f","4","c","7","c","3","2","d","4","f","7","1","b","5","4","b","d","a","0","2","9","1","3">>
USDC_BASE_SEPOLIA ==
  <<"0","x","d","9","9","6","1","b","b","4","c","b","2","7","1","9","2","f","8","d","a","d","2","0","a","6","6","2","b","e","0","8","1","f","5","4","6","b","0","e","7","4">>

\* the module-level registry: one set for all chains
USDC_ADDRESSES ==
  {USDC_ARBITRUM_ONE, USDC_ARBITRUM_SEPOLIA, USDC_BASE_MAINNET, USDC_BASE_SEPOLIA}

\* addresses the callers of the model pass in (the test fixtures' addresses)
WETH_ADDRESS ==
  <<"0","x","8","2","a","f","4","9","4","4","7","d","8","a","0","7","e","3","b","d","9","5","b","d","0","d","5","6","f","3","5","2","4","1","5","2","3","f","b","a","b","1">>
USDC_ADDRESS == USDC_ARBITRUM_ONE
\* the same USDC address as a caller may write it, in mixed case
USDC_ADDRESS_MIXED ==
  <<"0","x","a","f","8","8","d","0","6","5","e","7","7","c","8","c","C","2","2","3","9","3","2","7","C","5","E","D","b","3","A","4","3","2","2","6","8","e","5","8","3","1">>
\* the WETH address as a caller may write it, without the 0x prefix
WETH_ADDRESS_UNPREFIXED ==
  <<"8","2","a","f","4","9","4","4","7","d","8","a","0","7","e","3","b","d","9","5","b","d","0","d","5","6","f","3","5","2","4","1","5","2","3","f","b","a","b","1">>
\* the malformed address of the test's TEST token
TEST_ADDRESS == <<"0","x","1","2","3">>

LowerHex == {"0","1","2","3","4","5","6","7","8","9","a","b","c","d","e","f"}
HighNibble == {"8","9","a","b","c","d","e","f"}

\* str.lower() and str.upper() on one character of the address alphabet
LowerChar(ch) ==
  CASE ch = "A" -> "a" [] ch = "B" -> "b" [] ch = "C" -> "c"
    [] ch = "D" -> "d" [] ch = "E" -> "e" [] ch = "F" -> "f"
    [] ch = "X" -> "x" [] OTHER -> ch

UpperChar(ch) ==
  CASE ch = "a" -> "A" [] ch = "b" -> "B" [] ch = "c" -> "C"
    [] ch = "d" -> "D" [] ch = "e" -> "E" [] ch = "f" -> "F"
    [] ch = "x" -> "X" [] OTHER -> ch

\* str.lower()
lower(s) == [i \in 1..Len(s) |-> LowerChar(s[i])]

\* hex digest of keccak256 over the 40 lower-case hex digits of an address,
\* first 40 digits (the digest is tabulated, the casing rule is computed)
keccak(norm_address) ==
  CASE norm_address = USDC_ARBITRUM_ONE ->
  <<"5","5","2","4","3","e","b","e","5","a","0","4","0","4","d","e","f","0","0","6","e","5","9","5","d","e","6","9","8","1","a","0","b","e","4","3","d","5","8","b">>
    [] norm_address = USDC_ARBITRUM_SEPOLIA ->
  <<"e","3","5","1","6","d","6","9","9","8","6","d","b","c","d","9","e","2","d","8","1","c","8","2","e","0","0","4","7","e","7","a","c","4","b","f","4","a","2","b">>
    [] norm_address = USDC_BASE_MAINNET ->
  <<"4","c","4","d","0","c","2","b","b","4","2","d","3","6","b","b","2","5","1","3","1","d","0","6","b","d","2","3","d","7","0","0","7","0","e","f","1","a","9","b">>
    [] norm_address = USDC_BASE_SEPOLIA ->
  <<"8","2","a","4","6","c","7","d","c","3","f","4","a","8","0","3","a","3","8","1","0","b","0","b","c","6","6","7","f","a","c","0","b","b","c","4","d","e","2","1">>
    [] norm_address = WETH_ADDRESS ->
  <<"6","b","4","f","f","d","6","d","4","a","0","1","7","7","7","7","1","6","7","b","d","e","1","3","f","2","3","7","9","e","a","d","0","f","0","1","a","1","4","f">>

\* eth_utils.add_0x_prefix on a lower-cased string: the prefix is put in
\* front of a string that does not start with it
add_0x_prefix(value) ==
  IF Len(value) >= 2 /\ value[1] = "0" /\ value[2] = "x"
    THEN value
    ELSE <<"0", "x">> \o value

\* eth_utils.is_address on a normalised (lower-cased) string: 0x + 40 hex digits
is_address(s) ==
  /\ Len(s) = 42
  /\ s[1] = "0"
  /\ s[2] = "x"
  /\ \A i \in 3..42 : s[i] \in LowerHex

\* Web3.to_checksum_address: <<address>> in EIP-55 casing, or None where the
\* library raises ValueError (the value is not a 20-byte hex address).  The
\* value is normalised first: lower-cased, and prefixed with 0x if it is not.
to_checksum_address(value) ==
  LET norm_address == add_0x_prefix(lower(value))
  IN  IF ~ is_address(norm_address)
        THEN None
        ELSE LET address_hash == keccak(norm_address)
             IN  Some([i \in 1..42 |->
                        IF i <= 2 THEN norm_address[i]
                        ELSE IF address_hash[i - 2] \in HighNibble
                               THEN UpperChar(norm_address[i])
                               ELSE norm_address[i]])

\* ------------------------------------------------------------------------
\* Tokens (templates/liquidity_module.py) and fixed parameters
\* ------------------------------------------------------------------------
Token(address, symbol, decimals) ==
  [address |-> address, symbol |-> symbol, decimals |-> decimals]

Tokens ==
  { Token(USDC_ADDRESS, "USDC", 6),
    Token(USDC_ADDRESS_MIXED, "USDC", 6),
    Token(USDC_BASE_MAINNET, "WETH", 6),
    Token(WETH_ADDRESS, "WETH", 18),
    Token(WETH_ADDRESS, "USDC", 18),
    Token(WETH_ADDRESS_UNPREFIXED, "WETH", 18),
    Token(TEST_ADDRESS, "TEST", 18) }

ARBITRUM_ONE == "Chain.ARBITRUM_ONE"
ARBITRUM_SEPOLIA == "Chain.ARBITRUM_SEPOLIA"
BASE_MAINNET == "Chain.BASE_MAINNET"
BASE_SEPOLIA == "Chain.BASE_SEPOLIA"
Chain == {ARBITRUM_ONE, ARBITRUM_SEPOLIA, BASE_MAINNET, BASE_SEPOLIA}

\* the dicts a host passes as fixed_parameters: a supported Chain member, the
\* plain string "arbitrum_one" (not a Chain member), or no "chain" key at all
FixedParameters ==
  { [chain |-> ch, api_key |-> "test_api_key", api_secret |-> "test_api_secret"] :
      ch \in Chain \cup {"arbitrum_one"} }
  \cup { [api_key |-> "test_api_key", api_secret |-> "test_api_secret"] }

\* dict.get(key)
get(d, key) == IF key \in DOMAIN d THEN Some(d[key]) ELSE None

\* ------------------------------------------------------------------------
\* modules/renegade/types.py
\* ------------------------------------------------------------------------
BUY == "Buy"
SELL == "Sell"
OrderSide == {BUY, SELL}

AmountFields == {"base_amount", "quote_amount", "exact_base_output", "exact_quote_output"}

\* amt_none with the `== 0` test forgotten
amt_none_null_only(x) == x = None

\* `x is None or x == 0` for an Optional[int] field
amt_none(x) == x = None \/ x = Some(0)

\* the number of amount fields that are set, as validate_amounts counts them
amount_fields_set(o) == Cardinality({f \in AmountFields : ~ amt_none(o[f])})

\* ExternalOrder(...): field defaults, model_post_init (checksum both mints),
\* then the after-validator validate_amounts.  The outcome is the order, or
\* the error the constructor raises.
ExternalOrder(quote_mint, base_mint, side, base_amount, quote_amount, exact_base_output, exact_quote_output) ==
  LET q == to_checksum_address(quote_mint)
      b == to_checksum_address(base_mint)
      o == [quote_mint         |-> IF q = None THEN quote_mint ELSE q[1],
            base_mint          |-> IF b = None THEN base_mint ELSE b[1],
            side               |-> side,
            base_amount        |-> base_amount,
            quote_amount       |-> quote_amount,
            exact_base_output  |-> exact_base_output,
            exact_quote_output |-> exact_quote_output,
            min_fill_size      |-> 0]
  IN  IF q = None \/ b = None
        THEN [ok |-> FALSE, error |-> "ValueError: unknown address format"]
      ELSE IF amount_fields_set(o) = 0
        THEN [ok |-> FALSE, error |-> "ValidationError: one amount must be set"]
      ELSE IF amount_fields_set(o) > 1
        THEN [ok |-> FALSE, error |-> "ValidationError: only one amount can be set"]
      ELSE [ok |-> TRUE, order |-> o]

\* BaseModelWithConfig.model_dump of an ExternalOrder: every field whose
\* value is not None, with its plain value
order_model_dump(o) ==
  [k \in {f \in DOMAIN o : ~ (f \in AmountFields /\ o[f] = None)} |->
      IF k \in AmountFields THEN o[k][1] ELSE o[k]]

\* ExternalMatchRequest(...).model_dump(): receiver_address is None and is
\* dropped, the nested order is dumped the same way
request_model_dump(do_gas_estimation, receiver_address, external_order) ==
  LET r == [do_gas_estimation |-> Some(do_gas_estimation),
            receiver_address  |-> receiver_address,
            external_order    |-> external_order]
  IN  [k \in {f \in DOMAIN r : r[f] # None} |->
          IF k = "external_order" THEN order_model_dump(r[k][1]) ELSE r[k][1]]

\* ------------------------------------------------------------------------
\* modules/renegade/client.py
\* ------------------------------------------------------------------------
ARBITRUM_SEPOLIA_BASE_URL == "https://arbitrum-sepolia.auth-server.renegade.fi"
ARBITRUM_ONE_BASE_URL == "https://arbitrum-one.auth-server.renegade.fi"
BASE_SEPOLIA_BASE_URL == "https://base-sepolia.auth-server.renegade.fi"
BASE_MAINNET_BASE_URL == "https://base-mainnet.auth-server.renegade.fi"

\* ExternalMatchClient.__init__
ExternalMatchClient(api_key, api_secret, base_url) ==
  [api_key |-> api_key,
   http_client |-> [base_url |-> base_url, api_secret |-> api_secret]]

\* ExternalMatchOptions.new().with_gas_sponsorship(True).build_request_path()
build_request_path(request_gas_sponsorship, gas_refund_address) ==
  [route |-> "/v0/matching-engine/request-external-match",
   disable_gas_sponsorship |-> ~ request_gas_sponsorship,
   refund_address |-> gas_refund_address]

\* ExternalMatchClient._get_headers
_get_headers(cl) ==
  [x_renegade_api_key |-> cl.api_key, x_renegade_sdk_version |-> "python-vunknown"]

\* the request request_external_match hands to http_client.post_with_headers
build_request(cl, o) ==
  [base_url |-> cl.http_client.base_url,
   path     |-> build_request_path(TRUE, None),
   headers  |-> _get_headers(cl),
   body     |-> request_model_dump(FALSE, None, Some(o))]

\* _handle_optional_response with 204 falling into the error branch
_handle_optional_response_204_error(response) ==
  IF response.status_code = 200
    THEN IF "match_bundle" \in DOMAIN response.json
           THEN [kind |-> "match", match_bundle |-> response.json.match_bundle]
           ELSE [kind |-> "error", error |-> "ValidationError: match_bundle missing"]
  ELSE [kind |-> "error",
        error |-> "ExternalMatchClientError",
        message |-> response.text,
        status_code |-> response.status_code]

\* ExternalMatchClient._handle_optional_response followed by
\* ExternalMatchResponse(**match_resp): the outcome of the awaited request
\*   [kind: "none"]               204
\*   [kind: "match", match_bundle]  200 with a body that parses
\*   [kind: "error", error]       anything that raises
_handle_optional_response(response) ==
  IF response.status_code = 204 THEN [kind |-> "none"]
  ELSE IF response.status_code = 200
    THEN IF "match_bundle" \in DOMAIN response.json
           THEN [kind |-> "match", match_bundle |-> response.json.match_bundle]
           ELSE [kind |-> "error", error |-> "ValidationError: match_bundle missing"]
  ELSE [kind |-> "error",
        error |-> "ExternalMatchClientError",
        message |-> response.text,
        status_code |-> response.status_code]

\* ------------------------------------------------------------------------
\* modules/renegade_liquidity_module.py: private helpers
\* ------------------------------------------------------------------------
NO_INPUT_FEE == 0

\* _check_usdc deciding by the token's symbol
_check_usdc_by_symbol(token) == token.symbol = "USDC"

_check_usdc(token) == lower(token.address) \in USDC_ADDRESSES

\* _validate_pair without the USDC -> USDC test
_validate_pair_either(input_token, output_token) ==
  _check_usdc(input_token) \/ _check_usdc(output_token)

\* _validate_pair without the test that some side is USDC
_validate_pair_not_both(input_token, output_token) ==
  ~ (_check_usdc(input_token) /\ _check_usdc(output_token))

_validate_pair(input_token, output_token) ==
  LET usdc_in == _check_usdc(input_token)
      usdc_out == _check_usdc(output_token)
  IN  IF ~ (usdc_in \/ usdc_out) THEN FALSE
      ELSE IF usdc_in /\ usdc_out THEN FALSE
      ELSE TRUE

\* _create_order_from_input with the mints of the Sell branch exchanged
_create_order_from_input_swapped_mints(input_token, output_token, input_amount) ==
  IF _check_usdc(input_token)
    THEN ExternalOrder(input_token.address, output_token.address, BUY,
                       None, Some(input_amount), None, None)
    ELSE ExternalOrder(input_token.address, output_token.address, SELL,
                       Some(input_amount), None, None, None)

_create_order_from_input(input_token, output_token, input_amount) ==
  IF _check_usdc(input_token)
    THEN ExternalOrder(input_token.address, output_token.address, BUY,
                       None, Some(input_amount), None, None)
    ELSE ExternalOrder(output_token.address, input_token.address, SELL,
                       Some(input_amount), None, None, None)

\* _create_order_from_output with the two exact-output fields exchanged
_create_order_from_output_swapped(input_token, output_token, output_amount) ==
  IF _check_usdc(input_token)
    THEN ExternalOrder(input_token.address, output_token.address, BUY,
                       None, None, None, Some(output_amount))
    ELSE ExternalOrder(output_token.address, input_token.address, SELL,
                       None, None, Some(output_amount), None)

_create_order_from_output(input_token, output_token, output_amount) ==
  IF _check_usdc(input_token)
    THEN ExternalOrder(input_token.address, output_token.address, BUY,
                       None, None, Some(output_amount), None)
    ELSE ExternalOrder(output_token.address, input_token.address, SELL,
                       None, None, None, Some(output_amount))

\* ------------------------------------------------------------------------
\* What the venue may answer (the transport is an external collaborator)
\* ------------------------------------------------------------------------
\* fee records a bundle may carry: no fees, or both fees non-zero
FeeTakes == {[relayer_fee |-> 0, protocol_fee |-> 0], [relayer_fee |-> 1, protocol_fee |-> 2]}

\* the match bundles the venue may return for order o: any leg amounts, any
\* fees, and the two legs on the order's two mints in either orientation
MatchBundles(o) ==
  { [match_result  |-> [quote_mint |-> o.quote_mint, base_mint |-> o.base_mint,
                        quote_amount |-> IF rm = o.quote_mint THEN ra ELSE sa,
                        base_amount  |-> IF rm = o.quote_mint THEN sa ELSE ra,
                        direction |-> o.side],
     fees          |-> fee,
     receive       |-> [mint |-> rm, amount |-> ra],
     send          |-> [mint |-> IF rm = o.quote_mint THEN o.base_mint ELSE o.quote_mint,
                        amount |-> sa],
     settlement_tx |-> "0x123456789abcdef"] :
       rm \in {o.quote_mint, o.base_mint}, ra \in LegAmounts, sa \in LegAmounts,
       fee \in FeeTakes }

\* status codes other than 200 and 204 that the venue answers with
ErrorStatusCodes == {400, 500}

\* the outcomes of `await http_client.post_with_headers(path, body, headers)`:
\* a response (200 with a match bundle, 200 with a body that lacks one, 204,
\* an error status), or an exception raised by the transport
post_with_headers(request) ==
  { [kind |-> "response", status_code |-> 200, text |-> "",
     json |-> [match_bundle |-> b]] : b \in MatchBundles(request.body.external_order) }
  \cup { [kind |-> "response", status_code |-> 200, text |-> "", json |-> [error |-> "x"]],
         [kind |-> "response", status_code |-> 204, text |-> "", json |-> <<>>] }
  \cup { [kind |-> "response", status_code |-> sc, text |-> "venue error", json |-> <<>>] :
           sc \in ErrorStatusCodes }
  \cup { [kind |-> "raises", error |-> "ConnectError"] }

\* ------------------------------------------------------------------------
\* State
\* ------------------------------------------------------------------------
VARIABLES
  pc,          \* per call: "idle", "awaiting", "returned" or "raised"
  args,        \* per call: the arguments of the call (Optional)
  valid_pair,  \* per call: the local valid_pair (Optional)
  client,      \* per call: the local client (Optional)
  order,       \* per call: the local order (Optional)
  requests,    \* per call: the requests handed to http_client.post_with_headers
  response,    \* per call: the outcome of the awaited request (Optional)
  result,      \* per call: the returned tuple (fee, amount, bundle) (Optional)
  raised,      \* per call: the exception that left the call (Optional)
  stdout,      \* per call: the lines the call printed
  usdc_flags,  \* per call: the locals <<usdc_in, usdc_out>> of _validate_pair (Optional)
  ctor_args,   \* ExternalOrder construction on its own: the keyword arguments
  ctor_result, \* ... its outcome (Optional)
  ctor_dump    \* ... and the model_dump() of the constructed order (Optional)

call_vars == <<pc, args, valid_pair, client, order, requests, response, result, raised, stdout,
               usdc_flags>>
ctor_vars == <<ctor_args, ctor_result, ctor_dump>>
vars == <<pc, args, valid_pair, client, order, requests, response, result, raised, stdout,
          usdc_flags, ctor_args, ctor_result, ctor_dump>>

NoResult == <<None, None, None>>

\* _get_client falling back to the Arbitrum One client
_get_client_default(fixed_parameters) ==
  LET chain == get(fixed_parameters, "chain")
      api_key == fixed_parameters.api_key
      api_secret == fixed_parameters.api_secret
  IN  IF chain = Some(ARBITRUM_SEPOLIA)
        THEN Some(ExternalMatchClient(api_key, api_secret, ARBITRUM_SEPOLIA_BASE_URL))
      ELSE IF chain = Some(BASE_MAINNET)
        THEN Some(ExternalMatchClient(api_key, api_secret, BASE_MAINNET_BASE_URL))
      ELSE IF chain = Some(BASE_SEPOLIA)
        THEN Some(ExternalMatchClient(api_key, api_secret, BASE_SEPOLIA_BASE_URL))
      ELSE Some(ExternalMatchClient(api_key, api_secret, ARBITRUM_ONE_BASE_URL))

\* _get_client keeping the first client it built and handing it to every
\* later call, whatever that call's fixed parameters are
_get_client_cached(fixed_parameters) ==
  LET chain == get(fixed_parameters, "chain")
      api_key == fixed_parameters.api_key
      api_secret == fixed_parameters.api_secret
  IN  IF \E d \in Calls : client[d] # None
        THEN client[CHOOSE d \in Calls : client[d] # None]
      ELSE IF chain = Some(ARBITRUM_ONE)
        THEN Some(ExternalMatchClient(api_key, api_secret, ARBITRUM_ONE_BASE_URL))
      ELSE IF chain = Some(ARBITRUM_SEPOLIA)
        THEN Some(ExternalMatchClient(api_key, api_secret, ARBITRUM_SEPOLIA_BASE_URL))
      ELSE IF chain = Some(BASE_MAINNET)
        THEN Some(ExternalMatchClient(api_key, api_secret, BASE_MAINNET_BASE_URL))
      ELSE IF chain = Some(BASE_SEPOLIA)
        THEN Some(ExternalMatchClient(api_key, api_secret, BASE_SEPOLIA_BASE_URL))
      ELSE None

\* the client, or None where _get_client raises ValueError("Invalid chain")
_get_client(fixed_parameters) ==
  LET chain == get(fixed_parameters, "chain")
      api_key == fixed_parameters.api_key
      api_secret == fixed_parameters.api_secret
  IN  IF chain = Some(ARBITRUM_ONE)
        THEN Some(ExternalMatchClient(api_key, api_secret, ARBITRUM_ONE_BASE_URL))
      ELSE IF chain = Some(ARBITRUM_SEPOLIA)
        THEN Some(ExternalMatchClient(api_key, api_secret, ARBITRUM_SEPOLIA_BASE_URL))
      ELSE IF chain = Some(BASE_MAINNET)
        THEN Some(ExternalMatchClient(api_key, api_secret, BASE_MAINNET_BASE_URL))
      ELSE IF chain = Some(BASE_SEPOLIA)
        THEN Some(ExternalMatchClient(api_key, api_secret, BASE_SEPOLIA_BASE_URL))
      ELSE None

Init ==
  /\ pc = [c \in Calls |-> "idle"]
  /\ args = [c \in Calls |-> None]
  /\ valid_pair = [c \in Calls |-> None]
  /\ client = [c \in Calls |-> None]
  /\ order = [c \in Calls |-> None]
  /\ requests = [c \in Calls |-> <<>>]
  /\ response = [c \in Calls |-> None]
  /\ result = [c \in Calls |-> None]
  /\ raised = [c \in Calls |-> None]
  /\ stdout = [c \in Calls |-> <<>>]
  /\ usdc_flags = [c \in Calls |-> None]
  /\ ctor_args = None
  /\ ctor_result = None
  /\ ctor_dump = None

\* ------------------------------------------------------------------------
\* get_sell_quote / get_buy_quote
\* ------------------------------------------------------------------------
\* the call leaves by `return None, None, None`
ReturnNone(c) ==
  /\ pc' = [pc EXCEPT ![c] = "returned"]
  /\ result' = [result EXCEPT ![c] = Some(NoResult)]
  /\ raised' = raised

\* the call leaves by an exception
Raise(c, e) ==
  /\ pc' = [pc EXCEPT ![c] = "raised"]
  /\ raised' = [raised EXCEPT ![c] = Some(e)]
  /\ result' = result

\* quote_call resolving the client before it validates the pair
quote_call_client_first(c, op, fixed_parameters, input_token, output_token, amount) ==
  LET valid == _validate_pair(input_token, output_token)
      cl    == _get_client(fixed_parameters)
      oc    == IF op = "get_sell_quote"
                 THEN _create_order_from_input(input_token, output_token, amount)
                 ELSE _create_order_from_output(input_token, output_token, amount)
  IN
  /\ pc[c] = "idle"
  /\ args' = [args EXCEPT ![c] = Some([op |-> op, fixed_parameters |-> fixed_parameters,
                                       input_token |-> input_token,
                                       output_token |-> output_token, amount |-> amount])]
  /\ UNCHANGED <<response, stdout, ctor_args, ctor_result, ctor_dump>>
  /\ IF cl = None
       THEN /\ Raise(c, "ValueError: Invalid chain")
            /\ UNCHANGED <<valid_pair, usdc_flags, client, order, requests>>
     ELSE /\ valid_pair' = [valid_pair EXCEPT ![c] = Some(valid)]
          /\ usdc_flags' = [usdc_flags EXCEPT ![c] =
                              Some(<<_check_usdc(input_token), _check_usdc(output_token)>>)]
          /\ client' = [client EXCEPT ![c] = cl]
          /\ IF ~ valid
               THEN /\ ReturnNone(c)
                    /\ UNCHANGED <<order, requests>>
             ELSE IF ~ oc.ok
               THEN /\ Raise(c, oc.error)
                    /\ UNCHANGED <<order, requests>>
             ELSE /\ order' = [order EXCEPT ![c] = Some(oc.order)]
                  /\ requests' = [requests EXCEPT ![c] = Append(@, build_request(cl[1], oc.order))]
                  /\ pc' = [pc EXCEPT ![c] = "awaiting"]
                  /\ UNCHANGED <<result, raised>>

\* The body of a quote call from its entry to the await on the transport:
\* pair validation, client resolution, order construction, and the
\* synchronous head of request_external_match up to post_with_headers.
quote_call(c, op, fixed_parameters, input_token, output_token, amount) ==
  LET valid == _validate_pair(input_token, output_token)
      cl    == _get_client(fixed_parameters)
      oc    == IF op = "get_sell_quote"
                 THEN _create_order_from_input(input_token, output_token, amount)
                 ELSE _create_order_from_output(input_token, output_token, amount)
  IN
  /\ pc[c] = "idle"
  /\ args' = [args EXCEPT ![c] = Some([op |-> op, fixed_parameters |-> fixed_parameters,
                                       input_token |-> input_token,
                                       output_token |-> output_token, amount |-> amount])]
  /\ valid_pair' = [valid_pair EXCEPT ![c] = Some(valid)]
  /\ usdc_flags' = [usdc_flags EXCEPT ![c] =
                      Some(<<_check_usdc(input_token), _check_usdc(output_token)>>)]
  /\ UNCHANGED <<response, stdout, ctor_args, ctor_result, ctor_dump>>
  /\ IF ~ valid
       THEN /\ ReturnNone(c)
            /\ UNCHANGED <<client, order, requests>>
     ELSE IF cl = None
       THEN /\ Raise(c, "ValueError: Invalid chain")
            /\ UNCHANGED <<client, order, requests>>
     ELSE IF ~ oc.ok
       THEN /\ Raise(c, oc.error)
            /\ client' = [client EXCEPT ![c] = cl]
            /\ UNCHANGED <<order, requests>>
     ELSE /\ client' = [client EXCEPT ![c] = cl]
          /\ order' = [order EXCEPT ![c] = Some(oc.order)]
          /\ requests' = [requests EXCEPT ![c] = Append(@, build_request(cl[1], oc.order))]
          /\ pc' = [pc EXCEPT ![c] = "awaiting"]
          /\ UNCHANGED <<result, raised>>

\* quote_amount reading the receive leg for both operations
quote_amount_receive_only(op, match_bundle) == match_bundle.receive.amount

\* the amount a quote call reads out of the match bundle
quote_amount(op, match_bundle) ==
  IF op = "get_sell_quote" THEN match_bundle.receive.amount
                           ELSE match_bundle.send.amount

\* the quote tuple with the bundle's fees reported as the input fee
quote_result_with_fee(op, match_bundle) ==
  <<Some(match_bundle.fees.relayer_fee + match_bundle.fees.protocol_fee),
    Some(IF op = "get_sell_quote" THEN match_bundle.receive.amount
                                  ELSE match_bundle.send.amount),
    Some(match_bundle)>>

\* the quote tuple with the amount filled in and the bundle left out
quote_result_no_bundle(op, match_bundle) ==
  <<Some(NO_INPUT_FEE),
    Some(IF op = "get_sell_quote" THEN match_bundle.receive.amount
                                  ELSE match_bundle.send.amount),
    None>>

\* the tuple a quote call returns for a match
quote_result(op, match_bundle) ==
  <<Some(NO_INPUT_FEE), Some(quote_amount(op, match_bundle)), Some(match_bundle)>>

\* an except clause that lets the client's own error through
except_Exception_narrow(e) == e \notin {"CancelledError", "ExternalMatchClientError"}

\* `except Exception`: whether the clause catches an exception of class e
\* (asyncio.CancelledError derives from BaseException, not from Exception)
except_Exception(e) == e # "CancelledError"

\* quote_resume with one retry of the request after a caught error
quote_resume_retry(c, op, resp) ==
  LET external_match == IF resp.kind = "raises"
                          THEN [kind |-> "error", error |-> resp.error]
                          ELSE _handle_optional_response(resp)
  IN
  /\ pc[c] = "awaiting"
  /\ args[c][1].op = op
  /\ response' = [response EXCEPT ![c] = Some(resp)]
  /\ UNCHANGED <<args, valid_pair, client, order, usdc_flags,
                 ctor_args, ctor_result, ctor_dump>>
  /\ IF external_match.kind = "error"
       THEN IF except_Exception(external_match.error)
              THEN /\ stdout' = [stdout EXCEPT ![c] =
                                   Append(@, [text |-> "Error fetching Renegade quote",
                                              e |-> external_match])]
                   /\ IF Len(requests[c]) < 2
                        THEN /\ requests' = [requests EXCEPT ![c] = Append(@, @[Len(@)])]
                             /\ UNCHANGED <<pc, result, raised>>
                        ELSE /\ requests' = requests
                             /\ ReturnNone(c)
              ELSE /\ UNCHANGED <<stdout, requests>>
                   /\ Raise(c, external_match.error)
     ELSE IF external_match.kind = "none"
       THEN /\ UNCHANGED <<stdout, requests>>
            /\ ReturnNone(c)
     ELSE /\ UNCHANGED <<stdout, requests>>
          /\ pc' = [pc EXCEPT ![c] = "returned"]
          /\ result' = [result EXCEPT ![c] = Some(quote_result(op, external_match.match_bundle))]
          /\ raised' = raised

\* The rest of a quote call once the awaited request completes with outcome
\* resp: the tail of request_external_match_with_options, the except clause,
\* the `if not external_match` test and the final return.
quote_resume(c, op, resp) ==
  LET external_match == IF resp.kind = "raises"
                          THEN [kind |-> "error", error |-> resp.error]
                          ELSE _handle_optional_response(resp)
  IN
  /\ pc[c] = "awaiting"
  /\ args[c][1].op = op
  /\ response' = [response EXCEPT ![c] = Some(resp)]
  /\ UNCHANGED <<args, valid_pair, client, order, requests, usdc_flags,
                 ctor_args, ctor_result, ctor_dump>>
  /\ IF external_match.kind = "error"
       THEN IF except_Exception(external_match.error)
              THEN /\ stdout' = [stdout EXCEPT ![c] =
                                   Append(@, [text |-> "Error fetching Renegade quote",
                                              e |-> external_match])]
                   /\ ReturnNone(c)
              ELSE /\ stdout' = stdout
                   /\ Raise(c, external_match.error)
     ELSE IF external_match.kind = "none"
       THEN /\ stdout' = stdout
            /\ ReturnNone(c)
     ELSE /\ stdout' = stdout
          /\ pc' = [pc EXCEPT ![c] = "returned"]
          /\ result' = [result EXCEPT ![c] = Some(quote_result(op, external_match.match_bundle))]
          /\ raised' = raised

get_sell_quote(c) ==
  \E fp \in FixedParameters, ti \in Tokens, to \in Tokens, a \in Amounts :
    quote_call(c, "get_sell_quote", fp, ti, to, a)

get_buy_quote(c) ==
  \E fp \in FixedParameters, ti \in Tokens, to \in Tokens, a \in Amounts :
    quote_call(c, "get_buy_quote", fp, ti, to, a)

get_sell_quote_resume(c) ==
  /\ pc[c] = "awaiting"
  /\ \E resp \in post_with_headers(requests[c][Len(requests[c])]) :
       quote_resume(c, "get_sell_quote", resp)

get_buy_quote_resume(c) ==
  /\ pc[c] = "awaiting"
  /\ \E resp \in post_with_headers(requests[c][Len(requests[c])]) :
       quote_resume(c, "get_buy_quote", resp)

\* the task awaiting the transport is cancelled: CancelledError is raised at
\* the await
await_cancelled(c) ==
  /\ pc[c] = "awaiting"
  /\ quote_resume(c, args[c][1].op, [kind |-> "raises", error |-> "CancelledError"])

\* ExternalOrder construction on its own, from arbitrary keyword arguments
OptAmounts == {None} \cup {Some(a) : a \in Amounts}

InitOrder ==
  /\ pc = [c \in Calls |-> "idle"]
  /\ args = [c \in Calls |-> None]
  /\ valid_pair = [c \in Calls |-> None]
  /\ client = [c \in Calls |-> None]
  /\ order = [c \in Calls |-> None]
  /\ requests = [c \in Calls |-> <<>>]
  /\ response = [c \in Calls |-> None]
  /\ result = [c \in Calls |-> None]
  /\ raised = [c \in Calls |-> None]
  /\ stdout = [c \in Calls |-> <<>>]
  /\ usdc_flags = [c \in Calls |-> None]
  /\ ctor_dump = None
  /\ ctor_args \in
       { Some([quote_mint |-> q, base_mint |-> b, side |-> sd,
               base_amount |-> ba, quote_amount |-> qa,
               exact_base_output |-> ebo, exact_quote_output |-> eqo]) :
           q \in {USDC_ADDRESS, USDC_ADDRESS_MIXED}, b \in {WETH_ADDRESS, TEST_ADDRESS},
           sd \in OrderSide,
           ba \in OptAmounts, qa \in OptAmounts, ebo \in OptAmounts, eqo \in OptAmounts }
  /\ ctor_result = None

construct_order ==
  /\ ctor_args # None
  /\ ctor_result = None
  /\ LET k == ctor_args[1]
     IN  ctor_result' = Some(ExternalOrder(k.quote_mint, k.base_mint, k.side,
                                           k.base_amount, k.quote_amount,
                                           k.exact_base_output, k.exact_quote_output))
  /\ UNCHANGED <<pc, args, valid_pair, client, order, requests, response, result,
                 raised, stdout, usdc_flags, ctor_args, ctor_dump>>

\* order.model_dump() on an order that was constructed
dump_order ==
  /\ ctor_result # None
  /\ ctor_result[1].ok
  /\ ctor_dump = None
  /\ ctor_dump' = Some(order_model_dump(ctor_result[1].order))
  /\ UNCHANGED <<pc, args, valid_pair, client, order, requests, response, result,
                 raised, stdout, usdc_flags, ctor_args, ctor_result>>

NextOrder == construct_order \/ dump_order

SpecOrder == InitOrder /\ [][NextOrder]_vars

\* one caller: a single quote call, over the full input domain
Caller == 1

Next ==
  \/ get_sell_quote(Caller)
  \/ get_buy_quote(Caller)
  \/ get_sell_quote_resume(Caller)
  \/ get_buy_quote_resume(Caller)
  \/ await_cancelled(Caller)

Spec == Init /\ [][Next]_vars

\* several callers at once: every call slot runs a quote call, the calls
\* interleave at their awaits; the arguments come from a reduced domain
ConcurrentArgs ==
  { [op |-> "get_sell_quote", input_token |-> Token(USDC_ADDRESS, "USDC", 6),
     output_token |-> Token(WETH_ADDRESS, "WETH", 18), amount |-> 1,
     fixed_parameters |-> [chain |-> ARBITRUM_ONE, api_key |-> "test_api_key",
                           api_secret |-> "test_api_secret"]],
    [op |-> "get_buy_quote", input_token |-> Token(WETH_ADDRESS, "WETH", 18),
     output_token |-> Token(USDC_ADDRESS, "USDC", 6), amount |-> MaxAmount,
     fixed_parameters |-> [chain |-> BASE_MAINNET, api_key |-> "test_api_key",
                           api_secret |-> "test_api_secret"]],
    [op |-> "get_sell_quote", input_token |-> Token(WETH_ADDRESS, "WETH", 18),
     output_token |-> Token(TEST_ADDRESS, "TEST", 18), amount |-> 1,
     fixed_parameters |-> [chain |-> ARBITRUM_ONE, api_key |-> "test_api_key",
                           api_secret |-> "test_api_secret"]],
    [op |-> "get_buy_quote", input_token |-> Token(USDC_ADDRESS, "USDC", 6),
     output_token |-> Token(WETH_ADDRESS, "WETH", 18), amount |-> 1,
     fixed_parameters |-> [api_key |-> "test_api_key", api_secret |-> "test_api_secret"]] }

concurrent_call(c) ==
  \E a \in ConcurrentArgs :
    quote_call(c, a.op, a.fixed_parameters, a.input_token, a.output_token, a.amount)

NextConcurrent ==
  \E c \in Calls :
    \/ concurrent_call(c)
    \/ get_sell_quote_resume(c)
    \/ get_buy_quote_resume(c)
    \/ await_cancelled(c)

SpecConcurrent == Init /\ [][NextConcurrent]_vars

\* ------------------------------------------------------------------------
\* Properties
\* ------------------------------------------------------------------------
\* two spellings of one address: equal up to the case of each character
SameAddress(a, b) ==
  /\ Len(a) = Len(b)
  /\ \A i \in 1..Len(a) : LowerChar(a[i]) = LowerChar(b[i])

\* the token is the reference asset: its address is a registered USDC address
IsReference(token) == \E u \in USDC_ADDRESSES : SameAddress(token.address, u)

ExactlyOneReference(a) ==
  ~ (IsReference(a.input_token) <=> IsReference(a.output_token))

SupportedChain(fp) == "chain" \in DOMAIN fp /\ fp.chain \in Chain

\* 40 hex digits in any casing
HexDigits40(s) ==
  /\ Len(s) = 40
  /\ \A i \in 1..40 : LowerChar(s[i]) \in LowerHex

\* a 20-byte hex address in any casing, with or without the 0x prefix
WellFormed(addr) ==
  \/ HexDigits40(addr)
  \/ /\ Len(addr) = 42
     /\ addr[1] = "0"
     /\ LowerChar(addr[2]) = "x"
     /\ HexDigits40(SubSeq(addr, 3, 42))

\* the mint names the account of address addr: the same 20 bytes, whatever
\* the letter case and whether or not addr carries the 0x prefix
SameAccount(mint, addr) ==
  \/ SameAddress(mint, addr)
  \/ SameAddress(mint, <<"0", "x">> \o addr)

Called(c) == args[c] # None

IsStatus(r, codes) ==
  /\ r # None
  /\ r[1].kind = "response"
  /\ r[1].status_code \in codes

IsMatch(r) == IsStatus(r, {200}) /\ "match_bundle" \in DOMAIN r[1].json

\* C1: _validate_pair is true exactly when one and only one of the two
\* tokens is the reference asset; false when neither is, false when both are.
C1_ValidatePairIffExactlyOneReference ==
  \A c \in Calls :
    valid_pair[c] # None => (valid_pair[c][1] <=> ExactlyOneReference(args[c][1]))

C1_Witness ==
  \E c \in Calls :
    /\ Called(c)
    /\ args[c][1].input_token.address = USDC_ADDRESS_MIXED
    /\ args[c][1].output_token.address = USDC_BASE_MAINNET
    /\ valid_pair[c] = Some(FALSE)

\* C2: a quote call whose pair fails validation returns (None, None, None)
\* and never hands a request to the transport.
C2_InvalidPairReturnsNoneWithoutTransport ==
  \A c \in Calls :
    (Called(c) /\ ~ ExactlyOneReference(args[c][1])) =>
      /\ pc[c] = "returned"
      /\ result[c] = Some(NoResult)
      /\ raised[c] = None
      /\ requests[c] = <<>>
      /\ response[c] = None

C2_Witness ==
  \E c \in Calls :
    /\ Called(c)
    /\ args[c][1].op = "get_sell_quote"
    /\ args[c][1].input_token.address = WETH_ADDRESS
    /\ args[c][1].output_token.address = TEST_ADDRESS
    /\ result[c] = Some(NoResult)
    /\ requests[c] = <<>>

\* the row of the decision table for the call's arguments
TableSide(a) == IF IsReference(a.input_token) THEN BUY ELSE SELL

TableField(a) ==
  IF IsReference(a.input_token)
    THEN (IF a.op = "get_sell_quote" THEN "quote_amount" ELSE "exact_base_output")
    ELSE (IF a.op = "get_sell_quote" THEN "base_amount" ELSE "exact_quote_output")

FollowsTable(o, a) ==
  /\ o.side = TableSide(a)
  /\ \A f \in AmountFields : o[f] = IF f = TableField(a) THEN Some(a.amount) ELSE None

\* C3: for a valid pair and a non-zero amount the order built follows the
\* four-row decision table (side, the one populated field, its value the
\* caller's amount); the order is built whenever the chain is supported and
\* both addresses are 20-byte hex addresses.
C3_OrderFollowsDecisionTable ==
  \A c \in Calls :
    (Called(c) /\ ExactlyOneReference(args[c][1]) /\ args[c][1].amount # 0) =>
      /\ order[c] # None => FollowsTable(order[c][1], args[c][1])
      /\ ( /\ SupportedChain(args[c][1].fixed_parameters)
           /\ WellFormed(args[c][1].input_token.address)
           /\ WellFormed(args[c][1].output_token.address) ) => order[c] # None

C3_Witness ==
  \E c \in Calls :
    /\ Called(c)
    /\ args[c][1].op = "get_buy_quote"
    /\ IsReference(args[c][1].input_token)
    /\ order[c] # None
    /\ order[c][1].side = BUY
    /\ order[c][1].exact_base_output = Some(args[c][1].amount)
    /\ order[c][1].quote_amount = None

\* C4: in every order handed to the transport, quote_mint is the address of
\* the pair's reference asset and base_mint the address of the other token,
\* whichever of the two is the caller's input.
C4_QuoteMintIsReferenceAsset ==
  \A c \in Calls :
    \A i \in 1..Len(requests[c]) :
      LET a == args[c][1]
          eo == requests[c][i].body.external_order
          ref == IF IsReference(a.input_token) THEN a.input_token ELSE a.output_token
          other == IF IsReference(a.input_token) THEN a.output_token ELSE a.input_token
      IN  /\ IsReference(ref)
          /\ ~ IsReference(other)
          /\ SameAccount(eo.quote_mint, ref.address)
          /\ SameAccount(eo.base_mint, other.address)

C4_Witness ==
  \E c \in Calls :
    /\ Len(requests[c]) = 1
    /\ args[c][1].input_token.address = WETH_ADDRESS
    /\ args[c][1].output_token.address = USDC_ADDRESS
    /\ SameAddress(requests[c][1].body.external_order.quote_mint, USDC_ADDRESS)
    /\ requests[c][1].body.external_order.quote_mint # USDC_ADDRESS

\* an amount field is populated: not None and not 0
Populated(x) == x # None /\ x[1] # 0

NumPopulated(r) == Cardinality({f \in AmountFields : Populated(r[f])})

\* C5: a successfully constructed ExternalOrder has exactly one populated
\* amount field, and construction with none or with more than one populated
\* is rejected with an error.
C5_ExactlyOneAmountField ==
  ctor_result # None =>
    /\ ctor_result[1].ok => NumPopulated(ctor_result[1].order) = 1
    /\ NumPopulated(ctor_args[1]) # 1 => ~ ctor_result[1].ok

C5_Witness ==
  /\ ctor_result # None
  /\ ctor_result[1].ok
  /\ ctor_args[1].base_amount = Some(2)
  /\ ctor_args[1].quote_amount = Some(0)
  /\ ctor_args[1].exact_base_output = None

\* C6: whenever a quote call returns an amount, the returned fee is 0,
\* whatever fees the match bundle carries.
C6_FeeIsZero ==
  \A c \in Calls :
    (result[c] # None /\ result[c][1][2] # None) => result[c][1][1] = Some(0)

C6_Witness ==
  \E c \in Calls :
    /\ result[c] # None
    /\ result[c][1][2] # None
    /\ result[c][1][1] = Some(0)
    /\ response[c][1].json.match_bundle.fees.relayer_fee = 1
    /\ response[c][1].json.match_bundle.fees.protocol_fee = 2

\* C7: for a venue answer whose bundle has receive.amount R and send.amount
\* S, get_sell_quote returns amount R and get_buy_quote returns amount S,
\* on both sides and whatever amount the caller passed.
C7_AmountFromBundleLeg ==
  \A c \in Calls :
    IsMatch(response[c]) =>
      /\ result[c] # None
      /\ result[c][1][2] =
           Some(IF args[c][1].op = "get_sell_quote"
                  THEN response[c][1].json.match_bundle.receive.amount
                  ELSE response[c][1].json.match_bundle.send.amount)

C7_Witness ==
  \E c \in Calls :
    /\ IsMatch(response[c])
    /\ args[c][1].op = "get_buy_quote"
    /\ order[c][1].side = SELL
    /\ response[c][1].json.match_bundle.send.amount = MaxLeg
    /\ response[c][1].json.match_bundle.receive.amount # MaxLeg
    /\ result[c][1][2] = Some(MaxLeg)

\* C8: a 204 answer ends the call with (None, None, None) as a normal
\* result: nothing is raised and no error is printed.
C8_NoContentIsNoQuote ==
  \A c \in Calls :
    IsStatus(response[c], {204}) =>
      /\ pc[c] = "returned"
      /\ result[c] = Some(NoResult)
      /\ raised[c] = None
      /\ stdout[c] = <<>>

C8_Witness ==
  \E c \in Calls :
    /\ IsStatus(response[c], {204})
    /\ result[c] = Some(NoResult)
    /\ stdout[c] = <<>>

\* the transport raised an exception (not a cancellation)
TransportRaised(r) ==
  /\ r # None
  /\ r[1].kind = "raises"
  /\ r[1].error # "CancelledError"

\* C9: an answer with a status other than 200 and 204, or an exception
\* raised by the transport, is caught inside the quote call: the client's
\* error carries the response text and the status code, the call returns
\* (None, None, None) and nothing is raised to the caller.
C9_TransportErrorIsCaught ==
  \A c \in Calls :
    (IsStatus(response[c], ErrorStatusCodes) \/ TransportRaised(response[c])) =>
      /\ pc[c] = "returned"
      /\ result[c] = Some(NoResult)
      /\ raised[c] = None
      /\ Len(stdout[c]) = 1
      /\ IsStatus(response[c], ErrorStatusCodes) =>
           /\ stdout[c][1].e.error = "ExternalMatchClientError"
           /\ stdout[c][1].e.message = response[c][1].text
           /\ stdout[c][1].e.status_code = response[c][1].status_code

C9_Witness ==
  \E c \in Calls :
    /\ IsStatus(response[c], {500})
    /\ pc[c] = "returned"
    /\ result[c] = Some(NoResult)
    /\ stdout[c][1].e.status_code = 500

\* C10: resolving a client for fixed parameters whose chain is not one of
\* the four Chain members (or is missing) raises the configuration error out
\* of the quote call: no result is returned, no client is substituted, no
\* order is built and no request is made.
C10_UnknownChainIsFatal ==
  \A c \in Calls :
    ( /\ Called(c)
      /\ ExactlyOneReference(args[c][1])
      /\ ~ SupportedChain(args[c][1].fixed_parameters) ) =>
        /\ pc[c] = "raised"
        /\ raised[c] = Some("ValueError: Invalid chain")
        /\ result[c] = None
        /\ client[c] = None
        /\ order[c] = None
        /\ requests[c] = <<>>

C10_Witness ==
  \E c \in Calls :
    /\ Called(c)
    /\ "chain" \notin DOMAIN args[c][1].fixed_parameters
    /\ ExactlyOneReference(args[c][1])
    /\ pc[c] = "raised"
    /\ raised[c] = Some("ValueError: Invalid chain")

\* C11: a quote call never raises for a validation failure: an invalid pair
\* or a malformed order constraint (an amount of 0) yields
\* (None, None, None), and the only exception that leaves a quote call is
\* the configuration error for an unknown chain.
C11_ValidationFailureNeverRaises ==
  \A c \in Calls :
    /\ ( /\ Called(c)
         /\ SupportedChain(args[c][1].fixed_parameters)
         /\ (~ ExactlyOneReference(args[c][1]) \/ args[c][1].amount = 0) ) =>
           /\ pc[c] = "returned"
           /\ result[c] = Some(NoResult)
           /\ raised[c] = None
    /\ raised[c] # None => raised[c] = Some("ValueError: Invalid chain")

\* C12: whenever get_sell_quote returns an amount, the bundle's receive leg
\* is on the caller's output token; whenever get_buy_quote returns an amount,
\* the bundle's send leg is on the caller's input token.
C12_AmountInRequestedToken ==
  \A c \in Calls :
    (result[c] # None /\ result[c][1][2] # None) =>
      LET a == args[c][1]
          b == result[c][1][3][1]
      IN  IF a.op = "get_sell_quote"
            THEN SameAccount(b.receive.mint, a.output_token.address)
            ELSE SameAccount(b.send.mint, a.input_token.address)

\* C13: a quote call issues at most one transport request: a call that got
\* as far as building its order has issued exactly one, and once the request
\* has an outcome (an answer of any status, an exception, a cancellation) the
\* call is over and the request is not sent again.
C13_AtMostOneRequest ==
  \A c \in Calls :
    /\ Len(requests[c]) <= 1
    /\ order[c] # None => Len(requests[c]) = 1
    /\ pc[c] = "awaiting" => (Len(requests[c]) = 1 /\ response[c] = None)
    /\ response[c] # None => (Len(requests[c]) = 1 /\ pc[c] \in {"returned", "raised"})

C13_Witness ==
  \E c \in Calls :
    /\ IsStatus(response[c], {400})
    /\ pc[c] = "returned"
    /\ Len(requests[c]) = 1
    /\ result[c] = Some(NoResult)

\* the venue endpoint of a supported chain
UrlOf(chain) ==
  CASE chain = ARBITRUM_ONE -> "https://arbitrum-one.auth-server.renegade.fi"
    [] chain = ARBITRUM_SEPOLIA -> "https://arbitrum-sepolia.auth-server.renegade.fi"
    [] chain = BASE_MAINNET -> "https://base-mainnet.auth-server.renegade.fi"
    [] chain = BASE_SEPOLIA -> "https://base-sepolia.auth-server.renegade.fi"

\* everything call c holds
CallState(c) ==
  <<pc[c], args[c], valid_pair[c], client[c], order[c], requests[c], response[c],
    result[c], raised[c], stdout[c], usdc_flags[c]>>

\* call c works on its own client, order and request options, and its result
\* comes from the answer to its own request
OwnOutcome(c) ==
  LET a == args[c][1]
      fp == a.fixed_parameters
  IN  /\ client[c] # None =>
           /\ SupportedChain(fp)
           /\ client[c][1].http_client.base_url = UrlOf(fp.chain)
           /\ client[c][1].api_key = fp.api_key
      /\ order[c] # None => FollowsTable(order[c][1], a)
      /\ \A i \in 1..Len(requests[c]) :
           LET rq == requests[c][i]
               eo == rq.body.external_order
               ref == IF IsReference(a.input_token) THEN a.input_token ELSE a.output_token
               other == IF IsReference(a.input_token) THEN a.output_token ELSE a.input_token
           IN  /\ rq.base_url = UrlOf(fp.chain)
               /\ rq.headers.x_renegade_api_key = fp.api_key
               /\ rq.path.disable_gas_sponsorship = FALSE
               /\ rq.path.refund_address = None
               /\ SameAccount(eo.quote_mint, ref.address)
               /\ SameAccount(eo.base_mint, other.address)
               /\ eo[TableField(a)] = a.amount
      /\ (result[c] # None /\ result[c][1][3] # None) =>
           /\ IsMatch(response[c])
           /\ result[c][1][3] = Some(response[c][1].json.match_bundle)

\* two calls with the same arguments and the same outcome of their requests
\* are in the same state, whatever the other calls did in between
SameInputsSameState(c, d) ==
  (args[c] = args[d] /\ response[c] = response[d]) => CallState(c) = CallState(d)

\* a step changes the state of one call at most
OneCallPerStep ==
  \A c \in Calls : \A d \in Calls \ {c} :
    ~ (CallState(c)' # CallState(c) /\ CallState(d)' # CallState(d))

CallsIndependent ==
  /\ \A c \in Calls : Called(c) => OwnOutcome(c)
  /\ \A c \in Calls : \A d \in Calls : SameInputsSameState(c, d)

\* C14: in every interleaving of concurrent quote calls, the outcome of each
\* call is a function of its own arguments and of the answer to its own
\* request; a call neither reads nor writes another call's state, and works
\* on its own client, order and request options.
C14_ConcurrentCallsAreIndependent ==
  [] CallsIndependent /\ [][OneCallPerStep]_vars

C14_Witness ==
  \E c \in Calls : \E d \in Calls \ {c} :
    /\ pc[c] = "awaiting"
    /\ pc[d] = "returned"
    /\ result[d] # None
    /\ result[d][1][2] # None
    /\ client[c] # None
    /\ client[d] # None
    /\ client[c] # client[d]
    /\ order[c] # order[d]

\* the wait of call c on the transport response was cancelled
Cancelled(c) ==
  /\ response[c] # None
  /\ response[c][1].kind = "raises"
  /\ response[c][1].error = "CancelledError"

\* C15: a call whose wait on the transport response is cancelled
\* ends as the absent quote (None, None, None), never as a partial result.
C15_CancellationIsAbsentQuote ==
  \A c \in Calls :
    Cancelled(c) =>
      /\ pc[c] = "returned"
      /\ result[c] = Some(NoResult)
      /\ raised[c] = None

\* C16: the serialized body of every ExternalOrder that passes validation
\* contains quote_mint, base_mint, side and exactly one of the four amount
\* keys, also when another amount field was passed explicitly as 0.
C16_SerializedOrderHasOneAmountKey ==
  ctor_dump # None =>
    /\ {"quote_mint", "base_mint", "side"} \subseteq DOMAIN ctor_dump[1]
    /\ Cardinality(DOMAIN ctor_dump[1] \cap AmountFields) = 1

\* the registered USDC address of one network (the comments of the registry)
ChainUsdcAddress(chain) ==
  CASE chain = ARBITRUM_ONE -> USDC_ARBITRUM_ONE
    [] chain = ARBITRUM_SEPOLIA -> USDC_ARBITRUM_SEPOLIA
    [] chain = BASE_MAINNET -> USDC_BASE_MAINNET
    [] chain = BASE_SEPOLIA -> USDC_BASE_SEPOLIA

\* C17 as stated: a token is classified as the reference asset exactly when
\* its address is, up to letter case, the reference-asset address of the
\* network selected for the call; an address that is the reference asset
\* only on another network is not classified as the reference asset.
C17_ClassifiedByChainRegistry ==
  \A c \in Calls :
    (usdc_flags[c] # None /\ SupportedChain(args[c][1].fixed_parameters)) =>
      LET a == args[c][1]
          u == ChainUsdcAddress(a.fixed_parameters.chain)
      IN  /\ usdc_flags[c][1][1] = SameAddress(a.input_token.address, u)
          /\ usdc_flags[c][1][2] = SameAddress(a.output_token.address, u)

\* C17: a token is classified as the reference asset by its address only,
\* compared case-insensitively against one registry that holds the
\* reference-asset addresses of all supported networks: neither the token's
\* symbol nor the chain selected for the call has any influence, so an
\* address registered for another network than the selected one is
\* classified as the reference asset too.
C17_ClassifiedByGlobalRegistry ==
  \A c \in Calls :
    usdc_flags[c] # None =>
      LET a == args[c][1]
      IN  /\ usdc_flags[c][1][1] =
               (\E ch \in Chain : SameAddress(a.input_token.address, ChainUsdcAddress(ch)))
          /\ usdc_flags[c][1][2] =
               (\E ch \in Chain : SameAddress(a.output_token.address, ChainUsdcAddress(ch)))

C17_Witness ==
  \E c \in Calls :
    /\ usdc_flags[c] = Some(<<TRUE, FALSE>>)
    /\ SupportedChain(args[c][1].fixed_parameters)
    /\ args[c][1].fixed_parameters.chain = ARBITRUM_ONE
    /\ args[c][1].input_token.address = USDC_BASE_MAINNET
    /\ args[c][1].input_token.symbol # "USDC"
    /\ args[c][1].output_token.symbol = "USDC"

\* C18: every returned tuple is all-or-nothing: fee, amount and bundle are all
\* None or all present, and a present amount is the leg amount of the very
\* bundle in the tuple (receive.amount for get_sell_quote, send.amount for
\* get_buy_quote).
C18_ResultAllOrNothing ==
  \A c \in Calls :
    result[c] # None =>
      LET r == result[c][1]
      IN  \/ r = NoResult
          \/ /\ r[1] # None
             /\ r[2] # None
             /\ r[3] # None
             /\ r[2][1] = IF args[c][1].op = "get_sell_quote"
                            THEN r[3][1].receive.amount
                            ELSE r[3][1].send.amount

C18_Witness ==
  \E c \in Calls :
    /\ result[c] # None
    /\ result[c][1][3] # None
    /\ args[c][1].op = "get_buy_quote"
    /\ result[c][1][3][1].send.amount # result[c][1][3][1].receive.amount
    /\ result[c][1][2] = Some(result[c][1][3][1].send.amount)
    /\ result[c][1][1] # None

\* C19: within one quote call the steps run in the order pair validation,
\* client resolution, order construction, transport request: a later step
\* has happened only if every earlier one succeeded.  So a call with an
\* invalid pair and an unsupported chain returns (None, None, None) without
\* the configuration error, a call with a valid pair and an unsupported chain
\* raises the configuration error before any order is built or any request
\* is made, and an order that fails to build fails after the client was
\* resolved and before any request.
C19_StepsRunInFixedOrder ==
  \A c \in Calls :
    /\ requests[c] # <<>> => order[c] # None
    /\ order[c] # None => client[c] # None
    /\ client[c] # None => valid_pair[c] = Some(TRUE)
    /\ (valid_pair[c] = Some(FALSE) /\ ~ SupportedChain(args[c][1].fixed_parameters)) =>
         /\ pc[c] = "returned"
         /\ result[c] = Some(NoResult)
         /\ raised[c] = None
         /\ client[c] = None
    /\ (valid_pair[c] = Some(TRUE) /\ ~ SupportedChain(args[c][1].fixed_parameters)) =>
         /\ pc[c] = "raised"
         /\ raised[c] = Some("ValueError: Invalid chain")
         /\ order[c] = None
         /\ requests[c] = <<>>
    /\ (raised[c] # None /\ raised[c] \notin {Some("ValueError: Invalid chain"),
                                              Some("CancelledError")}) =>
         /\ client[c] # None
         /\ order[c] = None
         /\ requests[c] = <<>>

C19_Witness ==
  \E c \in Calls :
    /\ Called(c)
    /\ ~ SupportedChain(args[c][1].fixed_parameters)
    /\ ~ ExactlyOneReference(args[c][1])
    /\ valid_pair[c] = Some(FALSE)
    /\ pc[c] = "returned"
    /\ result[c] = Some(NoResult)
    /\ raised[c] = None

====
